---- MODULE Spec2Model ----
(***************************************************************************)
(* Probabilistic label tree (PLTree) of napkinXC: the label tree and its   *)
(* builders and serialization (src/src/pltree.cpp), the assignment of      *)
(* training rows to node buckets and the dispatch of node training, the    *)
(* best-first top-K prediction, and the per-node classifier Base            *)
(* (src/src/base.cpp).                                                      *)
(***************************************************************************)
EXTENDS Integers, Sequences, FiniteSets, TLC

VARIABLES
    plt,        \* the PLTree object: k, t, tree, treeRoot, treeLeaves
    call,       \* the tree-building call that produced plt, with its arguments
    out,        \* the stream written by PLTree::save
    loaded,     \* a fresh PLTree filled by PLTree::load
    probs,      \* predict: bases[i]->predict(features) of every node i, over ProbDen
    topK,       \* predict: the argument k
    nQueue,     \* predict: the priority queue of TreeNodeProb
    prediction, \* predict: the output vector
    ppc,        \* predict: position in PLTree::predict
    base,       \* a Base: classCount, firstClass, firstClassCount, t, lossType, W, G
    args,       \* the Args passed to Base::train and PLTree::train
    bcall,      \* the last call on base: its operation, its input, base before it
    ncalls,     \* number of calls made on base
    dangling,   \* the members of base (W, G) that point to a deleted vector
    updateMtx,  \* Base::updateMtx: the thread inside Base::update, or Null
    upc,        \* update: position of every calling thread
    ulocal,     \* update: label and features of every thread, and the t it read
    dataLabels, \* train: the label matrix, one sequence of labels per row
    binLabels,  \* train: std::vector<std::vector<double>> binLabels
    binFeatures,\* train: std::vector<std::vector<Feature*>> binFeatures (row numbers)
    tpc,        \* train: position of the thread that runs PLTree::train
    tloop,      \* train: the counter of the loop train is in
    nPositive,  \* train: nPositive of the last row assigned
    nNegative,  \* train: nNegative of the last row assigned
    memCorrupt, \* train: an access outside binLabels / binFeatures has happened
    poolQueue,  \* train: the task queue of the ThreadPool (task numbers)
    poolRunning,\* train: the tasks being run by pool workers
    results,    \* train: std::vector<std::future<int>> results
    disk        \* train: the files written under args.model

treeVars == <<plt, call, out, loaded>>
predVars == <<probs, topK, nQueue, prediction, ppc>>
baseVars == <<base, bcall, ncalls, dangling, updateMtx, upc, ulocal>>
trainVars == <<dataLabels, binLabels, binFeatures, tpc, tloop, nPositive, nNegative,
               memCorrupt, poolQueue, poolRunning, results, disk>>
vars == <<plt, call, out, loaded, probs, topK, nQueue, prediction, ppc,
          base, args, bcall, ncalls, dangling, updateMtx, upc, ulocal,
          dataLabels, binLabels, binFeatures, tpc, tloop, nPositive, nNegative,
          memCorrupt, poolQueue, poolRunning, results, disk>>

(***************************************************************************)
(* Bounds of the model.                                                    *)
(***************************************************************************)
MaxK == 4          \* label counts 1..MaxK for buildCompleteTree
MaxArity == 3      \* arities 2..MaxArity for buildCompleteTree
MaxPredK == 3      \* label counts 1..MaxPredK of the trees predict runs on
ProbDen == 2       \* node probabilities are 0/ProbDen .. ProbDen/ProbDen
MaxExamples == 2   \* a training set of a Base has 0..MaxExamples examples
MaxTrainCalls == 2 \* calls made on one Base
WMax == 2          \* weights are held as integers in -WMax..WMax

(***************************************************************************)
(* Helpers.                                                                *)
(***************************************************************************)
Null == -1

RECURSIVE Pow(_, _)
Pow(b, e) == IF e = 0 THEN 1 ELSE b * Pow(b, e - 1)

\* floor(log(k) / log(arity)) for k >= 1, arity >= 2
RECURSIVE FloorLog(_, _)
FloorLog(k, arity) == IF k < arity THEN 0 ELSE 1 + FloorLog(k \div arity, arity)

\* ceil(x / y) for x >= 0, y > 0
CeilDiv(x, y) == (x + y - 1) \div y

\* the outcomes of std::random_shuffle on <<0, ..., n-1>>
LabelOrders(n) ==
    { p \in [1..n -> 0..(n - 1)] : \A i, j \in 1..n : i # j => p[i] # p[j] }

\* std::unordered_map::insert: keeps an existing entry
MapInsert(m, key, val) ==
    IF key \in DOMAIN m THEN m
    ELSE [x \in (DOMAIN m) \cup {key} |-> IF x = key THEN val ELSE m[x]]

\* std::unordered_map::operator[] assignment: overwrites
MapPut(m, key, val) ==
    [x \in (DOMAIN m) \cup {key} |-> IF x = key THEN val ELSE m[x]]

EmptyMap == [x \in {} |-> 0]

Range(s) == { s[j] : j \in 1..Len(s) }

(***************************************************************************)
(* TreeNode and PLTree.  A TreeNode* is modelled by the position of the    *)
(* node in PLTree::tree (0-based, node i is T.tree[i + 1]).                *)
(***************************************************************************)
\* The label a node has when no code assigns it after `new TreeNode()`:
\* 0 when the struct is value-initialized, -1 when its declaration gives
\* label a default of "internal node".
DefaultLabels == {-1, 0}

NewTreeNode(defLabel) ==
    [index |-> 0, label |-> defLabel, parent |-> Null, children |-> <<>>]

EmptyTree ==
    [k |-> 0, t |-> 0, tree |-> <<>>, treeRoot |-> Null, treeLeaves |-> EmptyMap]

NodeIds(T) == 0..(Len(T.tree) - 1)
Node(T, i) == T.tree[i + 1]

(***************************************************************************)
(* PLTree::buildCompleteTree                                               *)
(***************************************************************************)
CompleteTreeSize(labelCount, arity) ==
    IF arity > 2
    THEN LET a == Pow(arity, FloorLog(labelCount, arity))
             b == labelCount - a
             c == CeilDiv(b, arity - 1)
             d == (arity * a - 1) \div (arity - 1)
             e == labelCount - (a - c)
         IN  e + d
    ELSE 2 * labelCount - 1

ParentIndexOffByOne(i, arity) == i \div arity

ParentIndex(i, arity) == (i - 1) \div arity

RECURSIVE BuildNodes(_, _, _, _, _, _, _)
BuildNodes(T, i, ti, arity, randomizeTree, labelsOrder, defLabel) ==
    IF i >= T.t THEN T
    ELSE
      LET lbl == IF i >= ti
                 THEN (IF randomizeTree THEN labelsOrder[i - ti + 1] ELSE i - ti)
                 ELSE -1
          par == IF i > 0 THEN ParentIndex(i, arity) ELSE NewTreeNode(defLabel).parent
          n   == [NewTreeNode(defLabel) EXCEPT !.index = i, !.label = lbl, !.parent = par]
          tr  == IF i > 0
                 THEN [T.tree EXCEPT ![par + 1].children = Append(@, i)]
                 ELSE T.tree
          lv  == IF i >= ti THEN MapInsert(T.treeLeaves, lbl, i) ELSE T.treeLeaves
      IN  BuildNodes([T EXCEPT !.tree = Append(tr, n), !.treeLeaves = lv],
                     i + 1, ti, arity, randomizeTree, labelsOrder, defLabel)

BuildCompleteTree(labelCount, arity0, randomizeTree, labelsOrder, defLabel) ==
    LET arity == IF arity0 > 2 THEN arity0 ELSE 2
        t  == CompleteTreeSize(labelCount, arity0)
        ti == t - labelCount
        T0 == [EmptyTree EXCEPT !.k = labelCount, !.t = t]
        T1 == BuildNodes(T0, 0, ti, arity, randomizeTree, labelsOrder, defLabel)
    IN  [T1 EXCEPT !.treeRoot = 0, !.tree[1].parent = Null]

(***************************************************************************)
(* PLTree::loadTreeStructure.  A description is the header (k, t) and the  *)
(* triples (parent, child, label) in file order.                           *)
(***************************************************************************)
RECURSIVE NewNodes(_, _, _)
NewNodes(tr, t, defLabel) ==
    IF Len(tr) >= t THEN tr
    ELSE NewNodes(Append(tr, [NewTreeNode(defLabel) EXCEPT !.index = Len(tr), !.parent = Null]),
                  t, defLabel)

RootTriple(T, child) == child

RECURSIVE ReadTriples(_, _, _, _)
ReadTriples(T, i, pos, triples) ==
    IF i >= T.t - 1 THEN T
    ELSE
      LET parent == triples[pos][1]
          child  == triples[pos][2]
          label  == triples[pos][3]
      IN  IF parent = -1
          THEN ReadTriples([T EXCEPT !.treeRoot = RootTriple(T, child)], i, pos + 1, triples)
          ELSE
            LET tr1 == [T.tree EXCEPT ![parent + 1].children = Append(@, child)]
                tr2 == [tr1 EXCEPT ![child + 1].parent = parent]
                tr3 == IF label >= 0 THEN [tr2 EXCEPT ![child + 1].label = label] ELSE tr2
                lv  == IF label >= 0 THEN MapInsert(T.treeLeaves, label, child)
                       ELSE T.treeLeaves
            IN  ReadTriples([T EXCEPT !.tree = tr3, !.treeLeaves = lv], i + 1, pos + 1, triples)

LoadTreeStructure(file, defLabel) ==
    LET T0 == [EmptyTree EXCEPT !.k = file.k, !.t = file.t,
                                !.tree = NewNodes(<<>>, file.t, defLabel),
                                !.treeRoot = 0]
    IN  ReadTriples(T0, 0, 1, file.triples)

(***************************************************************************)
(* PLTree::save and PLTree::load: the stream is the sequence of the ints   *)
(* written, read back by position.                                         *)
(***************************************************************************)
RECURSIVE SaveNodes(_, _)
SaveNodes(T, i) ==
    IF i >= T.t THEN <<>>
    ELSE <<Node(T, i).index, Node(T, i).label>> \o SaveNodes(T, i + 1)

RECURSIVE SaveParents(_, _)
SaveParents(T, i) ==
    IF i >= T.t THEN <<>>
    ELSE <<(IF Node(T, i).parent # Null THEN Node(T, Node(T, i).parent).index ELSE -1)>>
         \o SaveParents(T, i + 1)

Save(T0) ==
    LET T == [T0 EXCEPT !.t = Len(T0.tree)]
    IN  <<T.k, T.t>> \o SaveNodes(T, 0) \o <<Node(T, T.treeRoot).index>> \o SaveParents(T, 0)

RECURSIVE LoadNodes(_, _, _, _)
LoadNodes(T, i, in, defLabel) ==
    IF i >= T.t THEN T
    ELSE
      LET n  == [NewTreeNode(defLabel) EXCEPT !.index = in[2 + 2 * i + 1],
                                               !.label = in[2 + 2 * i + 2]]
          lv == IF n.label >= 0 THEN MapPut(T.treeLeaves, n.label, i) ELSE T.treeLeaves
      IN  LoadNodes([T EXCEPT !.tree = Append(@, n), !.treeLeaves = lv], i + 1, in, defLabel)

RECURSIVE LoadParents(_, _, _)
LoadParents(T, i, in) ==
    IF i >= T.t THEN T
    ELSE
      LET parentN == in[2 + 2 * T.t + 1 + i + 1]
      IN  IF parentN >= 0
          THEN LET tr1 == [T.tree EXCEPT ![parentN + 1].children = Append(@, i)]
                   tr2 == [tr1 EXCEPT ![i + 1].parent = parentN]
               IN  LoadParents([T EXCEPT !.tree = tr2], i + 1, in)
          ELSE LoadParents(T, i + 1, in)

Load(in, defLabel) ==
    LET T0 == [EmptyTree EXCEPT !.k = in[1], !.t = in[2]]
        T1 == LoadNodes(T0, 0, in, defLabel)
        T2 == [T1 EXCEPT !.treeRoot = in[2 + 2 * T1.t + 1]]
    IN  LoadParents(T2, 0, in)

NoCall == [op |-> "none"]

PredictIdle ==
    /\ probs = <<>>
    /\ topK = 0
    /\ nQueue = {}
    /\ prediction = <<>>
    /\ ppc = "idle"

NoDisk == [nodes |-> EmptyMap, tree |-> <<>>, args |-> FALSE]

TrainIdle ==
    /\ dataLabels = <<>>
    /\ binLabels = EmptyMap
    /\ binFeatures = EmptyMap
    /\ tpc = "idle"
    /\ tloop = 0
    /\ nPositive = {}
    /\ nNegative = {}
    /\ memCorrupt = FALSE
    /\ poolQueue = <<>>
    /\ poolRunning = {}
    /\ results = <<>>
    /\ disk = NoDisk

(***************************************************************************)
(* Base: the binary classifier of one node (src/src/base.cpp).  A weight   *)
(* vector is nullptr or a representation tag with the logical mapping      *)
(* index -> weight; weights are integers clamped to -WMax..WMax.  A        *)
(* Feature* is the set of the indices it holds, each with value 1; index 1 *)
(* is the bias feature.                                                    *)
(***************************************************************************)
NullVec == [rep |-> "null"]

FeatureVecs == { {1}, {1, 2} }

\* features.cols()
FeatureCols == Cardinality(UNION FeatureVecs) + 1

DenseVec(n) == [rep |-> "dense", w |-> [i \in 0..(n - 1) |-> 0]]

Clamp(x) == IF x > WMax THEN WMax ELSE IF x < -WMax THEN -WMax ELSE x

RECURSIVE SumOver(_, _)
SumOver(S, w) ==
    IF S = {} THEN 0
    ELSE LET i == CHOOSE x \in S : TRUE
         IN  (IF i \in DOMAIN w THEN w[i] ELSE 0) + SumOver(S \ {i}, w)

\* AbstractVector::dot
Dot(W, f) == SumOver(f, W.w)

\* AbstractVector::nonZero
NonZero(W) == Cardinality({ i \in DOMAIN W.w : W.w[i] # 0 })

\* Base::Base()
NewBase ==
    [classCount |-> 0, firstClass |-> 0, firstClassCount |-> 0, t |-> 0,
     lossType |-> "logistic", W |-> NullVec, G |-> NullVec]

\* logisticGrad / squaredHingeGrad: the sign of the gradient, 0 once the
\* prediction is at the bound on the side of the label
LossGrad(label, pred) ==
    IF label = 1 THEN (IF pred >= WMax THEN 0 ELSE -1)
    ELSE (IF pred <= -WMax THEN 0 ELSE 1)

\* updateSGD / updateAdaGrad
UpdateW(W, f, grad) ==
    [W EXCEPT !.w = [i \in DOMAIN W.w |-> IF i \in f THEN Clamp(W.w[i] - grad) ELSE W.w[i]]]

UpdateG(G, f, grad) ==
    IF G = NullVec THEN G
    ELSE [G EXCEPT !.w = [i \in DOMAIN G.w |->
                            IF i \in f THEN Clamp(G.w[i] + grad * grad) ELSE G.w[i]]]

\* Base::predictValue
PredictValue(b, f) ==
    IF b.classCount < 2 THEN (1 - 2 * b.firstClass) * (-10)
    ELSE LET val == Dot(b.W, f)
         IN  IF b.firstClass = 0 THEN -val ELSE val

\* the test that opens Base::unsafeUpdate and the loop body of trainOnline
SkipStep(t, a) == a.tmax # -1 /\ a.tmax < t

\* the loop of Base::trainOnline, from epoch e and example r on
RECURSIVE OnlineLoop(_, _, _, _, _, _)
OnlineLoop(st, e, r, labels, feats, a) ==
    IF e >= a.epochs THEN st
    ELSE IF r > Len(labels) THEN OnlineLoop(st, e + 1, 1, labels, feats, a)
    ELSE IF SkipStep(st.t, a) THEN OnlineLoop(st, e + 1, 1, labels, feats, a)
    ELSE
      LET t1   == st.t + 1
          fcc  == IF labels[r] = st.firstClass THEN st.firstClassCount + 1
                  ELSE st.firstClassCount
          pred == Dot(st.W, feats[r])
          grad == LossGrad(labels[r], pred)
      IN  OnlineLoop([st EXCEPT !.t = t1, !.firstClassCount = fcc,
                                !.W = UpdateW(st.W, feats[r], grad),
                                !.G = UpdateG(st.G, feats[r], grad)],
                     e, r + 1, labels, feats, a)

\* Base::trainOnline
TrainOnline(b, labels, feats, n, a) ==
    OnlineLoop([b EXCEPT !.classCount = 2, !.firstClass = 1, !.t = 0,
                         !.lossType = a.lossType,
                         !.W = DenseVec(n),
                         !.G = IF a.optimizerType = "adagrad" THEN DenseVec(n) ELSE NullVec],
               0, 1, labels, feats, a)

\* train_liblinear: the weight of feature i is the clamped difference of the
\* numbers of examples of the first and of the other class that hold i
SolverWeight(i, labels, feats) ==
    Clamp(Cardinality({ r \in 1..Len(labels) : labels[r] = labels[1] /\ i \in feats[r] })
          - Cardinality({ r \in 1..Len(labels) : labels[r] # labels[1] /\ i \in feats[r] }))

\* Base::trainLiblinear
TrainLiblinear(b, labels, feats, n, a) ==
    [b EXCEPT !.firstClass = labels[1],
              !.classCount = Cardinality(Range(labels)),
              !.W = [rep |-> "dense",
                     w |-> [i \in 0..n |-> IF i >= 1 THEN SolverWeight(i, labels, feats) ELSE 0]],
              !.lossType = IF a.solverType = "L2R_L2LOSS_SVC_DUAL" THEN "squaredHinge" ELSE @]

\* Base::pruneWeights
PruneWeights(W, threshold) ==
    [W EXCEPT !.w = [i \in DOMAIN W.w |->
                       IF i # 1 /\ W.w[i] < threshold /\ -W.w[i] < threshold THEN 0 ELSE W.w[i]]]

\* W->sparseMem() < W->denseMem(): an index and a weight for every non-zero
\* entry against a weight for every entry
ToSparseIfSmaller(W) ==
    IF 2 * NonZero(W) < Cardinality(DOMAIN W.w) THEN [W EXCEPT !.rep = "sparse"] ELSE W

TrainEmptyKeepsFirstClass(b) == [b EXCEPT !.classCount = 0]

\* Base::train, empty training set
TrainEmpty(b) == [b EXCEPT !.firstClass = 0, !.classCount = 0]

TrainSingleClassResetsT(b, labels) ==
    [b EXCEPT !.firstClass = labels[1], !.classCount = 1, !.t = 0]

\* Base::train, all labels identical
TrainSingleClass(b, labels) == [b EXCEPT !.firstClass = labels[1], !.classCount = 1]

\* Base::train
Train(b, labels, feats, n, a) ==
    IF labels = <<>> THEN TrainEmpty(b)
    ELSE
      LET positiveLabels == Cardinality({ r \in 1..Len(labels) : labels[r] = 1 })
      IN  IF positiveLabels = 0 \/ positiveLabels = Len(labels)
          THEN TrainSingleClass(b, labels)
          ELSE
            LET b1 == IF a.optimizerType = "liblinear"
                      THEN TrainLiblinear(b, labels, feats, n, a)
                      ELSE TrainOnline(b, labels, feats, n, a)
            IN  [b1 EXCEPT !.W = ToSparseIfSmaller(PruneWeights(b1.W, a.weightsThreshold))]

\* the vector members Base::train assigns a new vector to
TrainAssigns(labels, a) ==
    IF Cardinality(Range(labels)) <= 1 THEN {}
    ELSE IF a.optimizerType = "liblinear" THEN {"W"}
    ELSE {"W", "G"}

\* Base::setupOnlineTraining with n = 0: W and G are MapVectors
SetupOnlineTraining(b, a) ==
    [b EXCEPT !.lossType = a.lossType,
              !.W = [rep |-> "map", w |-> [i \in 0..(FeatureCols - 1) |-> 0]],
              !.G = IF a.optimizerType = "adagrad"
                    THEN [rep |-> "map", w |-> [i \in 0..(FeatureCols - 1) |-> 0]]
                    ELSE NullVec,
              !.classCount = 2, !.firstClass = 1, !.t = 0]

\* Base::Base(Args&)
NewBaseArgs(a) ==
    IF a.optimizerType # "liblinear" THEN SetupOnlineTraining(NewBase, a) ELSE NewBase

\* ++t; if (label == firstClass) ++firstClassCount;
CountStep(b, label) ==
    [b EXCEPT !.t = @ + 1,
              !.firstClassCount = IF label = b.firstClass THEN @ + 1 ELSE @]

\* Base::unsafeUpdate, when the step is not skipped and W (and G for
\* adagrad) is a vector
UnsafeUpdate(b, label, f, a) ==
    LET b1   == CountStep(b, label)
        grad == LossGrad(label, PredictValue(b1, f))
    IN  [b1 EXCEPT !.W = UpdateW(b1.W, f, grad),
                   !.G = IF a.optimizerType = "adagrad" THEN UpdateG(b1.G, f, grad) ELSE @]

\* AbstractVector::invert
Invert(W) == [W EXCEPT !.w = [i \in DOMAIN W.w |-> -W.w[i]]]

\* Base::vecTo on one member: what the call does with it
VecTo(vec, type) ==
    IF vec = NullVec THEN "return"
    ELSE IF vec.rep # type THEN "convert"
    ELSE "throw"

RepresentationTypes == {"dense", "map", "sparse"}

(***************************************************************************)
(* Specification of one Base under a sequence of calls.                    *)
(***************************************************************************)
TmaxValues == {-2, -1, 0, 1}

EpochValues == {1, 2}

\* args.weightsThreshold: weights of magnitude 1 are the ones pruned
ThresholdValues == {2}

ArgsSet ==
    { [optimizerType |-> "liblinear", solverType |-> sv, lossType |-> "logistic",
       epochs |-> 1, tmax |-> -1, weightsThreshold |-> th] :
        sv \in {"L2R_LR_DUAL", "L2R_L2LOSS_SVC_DUAL"}, th \in ThresholdValues }
    \cup
    { [optimizerType |-> op, solverType |-> "L2R_LR_DUAL", lossType |-> ls,
       epochs |-> ep, tmax |-> tm, weightsThreshold |-> th] :
        op \in {"sgd", "adagrad"}, ls \in {"logistic", "squaredHinge"},
        ep \in EpochValues, tm \in TmaxValues, th \in ThresholdValues }

NoArgs == [optimizerType |-> "none"]

RECURSIVE SeqsUpTo(_, _)
SeqsUpTo(S, n) ==
    IF n = 0 THEN {<<>>}
    ELSE SeqsUpTo(S, n - 1) \cup { Append(q, x) : q \in { y \in SeqsUpTo(S, n - 1) : Len(y) = n - 1 }, x \in S }

\* training sets: (label, features) of every example
TrainingSets == SeqsUpTo({0, 1} \X FeatureVecs, MaxExamples)

\* no thread is calling Base::update
UpdateIdle ==
    /\ updateMtx = Null
    /\ upc = <<>>
    /\ ulocal = <<>>

BaseIdle ==
    /\ base = NewBase
    /\ args = NoArgs
    /\ bcall = NoCall
    /\ ncalls = 0
    /\ dangling = {}
    /\ UpdateIdle

InitBase ==
    /\ base = NewBase
    /\ args \in ArgsSet
    /\ bcall = NoCall
    /\ ncalls = 0
    /\ dangling = {}
    /\ UpdateIdle
    /\ plt = EmptyTree
    /\ call = NoCall
    /\ out = <<>>
    /\ loaded = EmptyTree
    /\ PredictIdle
    /\ TrainIdle

DoBaseTrain ==
    /\ ncalls < MaxTrainCalls
    /\ bcall.op # "crashed"
    /\ \E data \in TrainingSets :
         LET labels == [r \in 1..Len(data) |-> data[r][1]]
             feats  == [r \in 1..Len(data) |-> data[r][2]]
         IN  /\ base' = Train(base, labels, feats, FeatureCols, args)
             /\ bcall' = [op |-> "train", labels |-> labels, before |-> base]
             /\ dangling' = dangling \ TrainAssigns(labels, args)
    /\ ncalls' = ncalls + 1
    /\ UNCHANGED <<updateMtx, upc, ulocal>>
    /\ UNCHANGED <<args, treeVars, predVars, trainVars>>

\* Base::unsafeUpdate
DoUnsafeUpdate ==
    /\ ncalls < MaxTrainCalls
    /\ bcall.op # "crashed"
    /\ \E label \in {0, 1}, f \in FeatureVecs :
         LET c == [op |-> "unsafeUpdate", label |-> label, before |-> base]
         IN  IF SkipStep(base.t, args)
             THEN /\ bcall' = c @@ [outcome |-> "skipped"]
                  /\ UNCHANGED base
             ELSE IF args.optimizerType = "liblinear"
             THEN /\ bcall' = c @@ [outcome |-> "exception"]
                  /\ base' = CountStep(base, label)
             ELSE IF base.W = NullVec \/ (args.optimizerType = "adagrad" /\ base.G = NullVec)
             THEN \/ /\ bcall' = [op |-> "crashed", in |-> "unsafeUpdate"]
                     /\ base' = CountStep(base, label)
                  \/ /\ bcall' = c @@ [outcome |-> "returned"]
                     /\ base' = CountStep(base, label)
             ELSE /\ bcall' = c @@ [outcome |-> "returned"]
                  /\ base' = UnsafeUpdate(base, label, f, args)
    /\ ncalls' = ncalls + 1
    /\ UNCHANGED <<dangling, updateMtx, upc, ulocal>>
    /\ UNCHANGED <<args, treeVars, predVars, trainVars>>

\* Base::setFirstClass
DoSetFirstClass ==
    /\ ncalls < MaxTrainCalls
    /\ bcall.op # "crashed"
    /\ \E first \in {0, 1} :
         LET c == [op |-> "setFirstClass", first |-> first, before |-> base,
                   outcome |-> "returned"]
         IN  IF base.firstClass = first
             THEN /\ bcall' = c
                  /\ UNCHANGED base
             ELSE IF base.W = NullVec
             THEN \/ /\ bcall' = [op |-> "crashed", in |-> "setFirstClass"]
                     /\ UNCHANGED base
                  \/ /\ bcall' = c
                     /\ base' = [base EXCEPT !.G = IF @ = NullVec THEN @ ELSE Invert(@),
                                              !.firstClass = first]
             ELSE /\ bcall' = c
                  /\ base' = [base EXCEPT !.W = Invert(@),
                                           !.G = IF @ = NullVec THEN @ ELSE Invert(@),
                                           !.firstClass = first]
    /\ ncalls' = ncalls + 1
    /\ UNCHANGED <<dangling, updateMtx, upc, ulocal>>
    /\ UNCHANGED <<args, treeVars, predVars, trainVars>>

\* Base::to: vecTo(W, type); vecTo(G, type).  vecTo deletes the vector and
\* assigns the new one to its own parameter, so the member keeps pointing
\* to the deleted vector.
DoTo ==
    /\ ncalls < MaxTrainCalls
    /\ bcall.op # "crashed"
    /\ \E type \in RepresentationTypes :
         LET c  == [op |-> "to", type |-> type, before |-> base, danglingBefore |-> dangling]
             rW == VecTo(base.W, type)
             rG == VecTo(base.G, type)
         IN  IF rW = "throw"
             THEN /\ bcall' = c @@ [outcome |-> "exception"]
                  /\ UNCHANGED dangling
             ELSE /\ bcall' = c @@ [outcome |-> IF rG = "throw" THEN "exception" ELSE "returned"]
                  /\ dangling' = dangling \cup (IF rW = "convert" THEN {"W"} ELSE {})
                                           \cup (IF rG = "convert" THEN {"G"} ELSE {})
    /\ ncalls' = ncalls + 1
    /\ UNCHANGED <<base, updateMtx, upc, ulocal>>
    /\ UNCHANGED <<args, treeVars, predVars, trainVars>>

\* any call on a Base whose W or G points to a deleted vector may end the
\* process
DoUseDangling ==
    /\ dangling # {}
    /\ bcall.op # "crashed"
    /\ bcall' = [op |-> "crashed", in |-> "any"]
    /\ UNCHANGED <<base, ncalls, dangling, updateMtx, upc, ulocal>>
    /\ UNCHANGED <<args, treeVars, predVars, trainVars>>

NextBase == DoBaseTrain \/ DoUnsafeUpdate \/ DoSetFirstClass \/ DoTo \/ DoUseDangling

SpecBase == InitBase /\ [][NextBase]_vars

(***************************************************************************)
(* Properties of Base (checked under SpecBase).                            *)
(***************************************************************************)
\* C5 as stated: after train on an empty training set the Base has
\* classCount = 0 and firstClass = 0 and predictValue returns +10 for every
\* feature vector.
C5_EmptyTrainPredictsPlus10 ==
    (bcall.op = "train" /\ bcall.labels = <<>>) =>
      /\ base.classCount = 0
      /\ base.firstClass = 0
      /\ \A f \in FeatureVecs : PredictValue(base, f) = 10

\* C5 amended: after train on an empty training set the Base has
\* classCount = 0 and firstClass = 0 and predictValue returns -10 for every
\* feature vector.
C5_EmptyTrainPredictsMinus10 ==
    (bcall.op = "train" /\ bcall.labels = <<>>) =>
      /\ base.classCount = 0
      /\ base.firstClass = 0
      /\ \A f \in FeatureVecs : PredictValue(base, f) = -10

\* C5 witness: train on an empty set was called on a Base that an earlier
\* train had left as the constant class 1.
C5_Witness ==
    /\ bcall.op = "train"
    /\ bcall.labels = <<>>
    /\ bcall.before.classCount = 1
    /\ bcall.before.firstClass = 1
    /\ base.classCount = 0

\* C6: after train on a non-empty set whose labels are all identical,
\* classCount = 1 and firstClass = labels[0]; W, G, t, firstClassCount and
\* lossType are as before the call; predictValue returns +10 for every
\* feature vector when the labels are 1 and -10 when they are 0.
C6_SingleClassTrain ==
    (bcall.op = "train" /\ bcall.labels # <<>> /\ Cardinality(Range(bcall.labels)) = 1) =>
      /\ base.classCount = 1
      /\ base.firstClass = bcall.labels[1]
      /\ base.W = bcall.before.W
      /\ base.G = bcall.before.G
      /\ base.t = bcall.before.t
      /\ base.firstClassCount = bcall.before.firstClassCount
      /\ base.lossType = bcall.before.lossType
      /\ \A f \in FeatureVecs :
           PredictValue(base, f) = (IF bcall.labels[1] = 1 THEN 10 ELSE -10)

\* C6 witness: a single-class train (all labels 0) on a Base that an earlier
\* online training had given weights, gradients and a step count.
C6_Witness ==
    /\ bcall.op = "train"
    /\ bcall.labels = <<0, 0>>
    /\ bcall.before.classCount = 2
    /\ bcall.before.t > 0
    /\ bcall.before.G # NullVec
    /\ \E f \in FeatureVecs : Dot(bcall.before.W, f) # 0
    /\ base.classCount = 1

(***************************************************************************)
(* Tree descriptions given to loadTreeStructure: t - 1 edge triples and    *)
(* one root triple at any position.                                        *)
(***************************************************************************)
InsertAt(s, p, x) == SubSeq(s, 1, p - 1) \o <<x>> \o SubSeq(s, p, Len(s))

\* scenario S3 of the specification, root triple first
S3File ==
    [k |-> 4, t |-> 7,
     triples |-> << <<-1, 0, -1>>, <<0, 1, -1>>, <<0, 2, -1>>,
                    <<1, 3, 0>>, <<1, 4, 1>>, <<2, 5, 2>>, <<2, 6, 3>> >>]

\* the S3 tree with the root triple at position p
S3Files ==
    { [S3File EXCEPT !.triples = InsertAt(Tail(S3File.triples), p, <<-1, 0, -1>>)] :
        p \in 1..Len(S3File.triples) }

\* a root r with two leaves a (label 0) and b (label 1), any numbering of the
\* nodes, the root triple at position p, the two edges in either order
SmallFiles ==
    { [k |-> 2, t |-> 3,
       triples |-> InsertAt(IF sw THEN << <<n[1], n[3], 1>>, <<n[1], n[2], 0>> >>
                                  ELSE << <<n[1], n[2], 0>>, <<n[1], n[3], 1>> >>,
                            p, <<-1, n[1], -1>>)] :
        n \in LabelOrders(3), p \in 1..3, sw \in BOOLEAN }

\* a root r with a leaf (label 0) and an internal child with two leaves
\* (labels 1, 2), nodes numbered along n, root triple at position p
MidFiles ==
    { [k |-> 3, t |-> 5,
       triples |-> InsertAt(<< <<n[1], n[2], -1>>, <<n[1], n[3], 0>>,
                               <<n[2], n[4], 1>>, <<n[2], n[5], 2>> >>,
                            p, <<-1, n[1], -1>>)] :
        n \in { <<0, 1, 2, 3, 4>>, <<4, 3, 2, 1, 0>>, <<2, 4, 0, 1, 3>> }, p \in 1..5 }

TreeFiles == S3Files \cup SmallFiles \cup MidFiles

(***************************************************************************)
(* Specification of the label tree: build or load a structure, save it,    *)
(* load the saved stream into a fresh PLTree.                              *)
(***************************************************************************)
InitTree ==
    /\ plt = EmptyTree
    /\ call = NoCall
    /\ out = <<>>
    /\ loaded = EmptyTree
    /\ PredictIdle
    /\ BaseIdle
    /\ TrainIdle

DoBuildCompleteTree ==
    /\ call = NoCall
    /\ \E labelCount \in 1..MaxK, arity \in 2..MaxArity, randomizeTree \in BOOLEAN,
          defLabel \in DefaultLabels :
         \E labelsOrder \in (IF randomizeTree THEN LabelOrders(labelCount) ELSE {<<>>}) :
           /\ plt' = BuildCompleteTree(labelCount, arity, randomizeTree, labelsOrder, defLabel)
           /\ call' = [op |-> "buildCompleteTree", k |-> labelCount, arity |-> arity,
                       randomizeTree |-> randomizeTree, labelsOrder |-> labelsOrder]
    /\ UNCHANGED <<out, loaded>>
    /\ UNCHANGED <<predVars, baseVars, args, trainVars>>

DoLoadTreeStructure ==
    /\ call = NoCall
    /\ \E file \in TreeFiles, defLabel \in DefaultLabels :
         /\ plt' = LoadTreeStructure(file, defLabel)
         /\ call' = [op |-> "loadTreeStructure", file |-> file]
    /\ UNCHANGED <<out, loaded>>
    /\ UNCHANGED <<predVars, baseVars, args, trainVars>>

DoSave ==
    /\ call # NoCall
    /\ out = <<>>
    /\ out' = Save(plt)
    /\ plt' = [plt EXCEPT !.t = Len(plt.tree)]
    /\ UNCHANGED <<call, loaded>>
    /\ UNCHANGED <<predVars, baseVars, args, trainVars>>

DoLoad ==
    /\ out # <<>>
    /\ loaded = EmptyTree
    /\ \E defLabel \in DefaultLabels : loaded' = Load(out, defLabel)
    /\ UNCHANGED <<plt, call, out>>
    /\ UNCHANGED <<predVars, baseVars, args, trainVars>>

NextTree == DoBuildCompleteTree \/ DoLoadTreeStructure \/ DoSave \/ DoLoad

SpecTree == InitTree /\ [][NextTree]_vars

(***************************************************************************)
(* PLTree::predict: best-first traversal with a max-priority queue.  A     *)
(* probability is held exactly, as an integer over Scale(T).               *)
(***************************************************************************)
Scale(T) == Pow(ProbDen, Len(T.tree))

\* p = bases[treeRoot->index]->predict(features)
RootProb(T, pr) == pr[Node(T, T.treeRoot).index] * (Scale(T) \div ProbDen)

ChildProbNotCumulative(T, npP, q) == q * (Scale(T) \div ProbDen)

\* p = np.p * bases[child->index]->predict(features)
ChildProb(T, npP, q) == (npP * q) \div ProbDen

\* std::priority_queue<TreeNodeProb>::top: an element no other one exceeds
QueueTop(q) == { e \in q : \A o \in q : o.p <= e.p }

InitPredict ==
    /\ \E labelCount \in 1..MaxPredK, arity \in 2..MaxArity, defLabel \in DefaultLabels :
         /\ plt = BuildCompleteTree(labelCount, arity, FALSE, <<>>, defLabel)
         /\ call = [op |-> "buildCompleteTree", k |-> labelCount, arity |-> arity,
                    randomizeTree |-> FALSE, labelsOrder |-> <<>>]
    /\ out = <<>>
    /\ loaded = EmptyTree
    /\ probs \in [NodeIds(plt) -> 0..ProbDen]
    /\ topK \in 0..(plt.k + 1)
    /\ nQueue = {}
    /\ prediction = <<>>
    /\ ppc = "start"
    /\ BaseIdle
    /\ TrainIdle

PredictBegin ==
    /\ ppc = "start"
    /\ nQueue' = {[node |-> plt.treeRoot, p |-> RootProb(plt, probs)]}
    /\ ppc' = "loop"
    /\ UNCHANGED <<probs, topK, prediction>>
    /\ UNCHANGED <<treeVars, baseVars, args, trainVars>>

PredictPop ==
    /\ ppc = "loop"
    /\ nQueue # {}
    /\ \E np \in QueueTop(nQueue) :
         IF Node(plt, np.node).label >= 0
         THEN /\ prediction' = Append(prediction, np)
              /\ nQueue' = nQueue \ {np}
              /\ ppc' = IF Len(prediction') >= topK THEN "done" ELSE "loop"
         ELSE /\ nQueue' = (nQueue \ {np}) \cup
                   { [node |-> child,
                      p |-> ChildProb(plt, np.p, probs[Node(plt, child).index])] :
                       child \in Range(Node(plt, np.node).children) }
              /\ UNCHANGED <<prediction, ppc>>
    /\ UNCHANGED <<probs, topK>>
    /\ UNCHANGED <<treeVars, baseVars, args, trainVars>>

PredictEnd ==
    /\ ppc = "loop"
    /\ nQueue = {}
    /\ ppc' = "done"
    /\ UNCHANGED <<probs, topK, nQueue, prediction>>
    /\ UNCHANGED <<treeVars, baseVars, args, trainVars>>

NextPredict == PredictBegin \/ PredictPop \/ PredictEnd

SpecPredict == InitPredict /\ [][NextPredict]_vars

(***************************************************************************)
(* Properties of PLTree::predict (checked under SpecPredict).              *)
(***************************************************************************)
Leaves(T) == { i \in NodeIds(T) : Node(T, i).label >= 0 /\ Node(T, i).children = <<>> }

\* the product of the node probabilities on the path from the root to node n
RECURSIVE PathProduct(_, _, _)
PathProduct(T, pr, n) ==
    IF Node(T, n).parent = Null THEN pr[n] * (Scale(T) \div ProbDen)
    ELSE (PathProduct(T, pr, Node(T, n).parent) * pr[n]) \div ProbDen

\* C1: with node probabilities in [0,1] and 1 <= k <= number of leaves, predict
\* emits exactly k distinct leaves, each with the product of the probabilities
\* on its root-to-leaf path, in non-increasing order, and no leaf left out has
\* a larger product than an emitted one (the emitted are the k largest).
C1_PredictTopK ==
    (ppc = "done" /\ topK \in 1..Cardinality(Leaves(plt))) =>
      /\ Len(prediction) = topK
      /\ \A j \in 1..Len(prediction) :
           /\ prediction[j].node \in Leaves(plt)
           /\ prediction[j].p = PathProduct(plt, probs, prediction[j].node)
      /\ \A i, j \in 1..Len(prediction) :
           /\ i # j => prediction[i].node # prediction[j].node
           /\ i < j => prediction[i].p >= prediction[j].p
      /\ \A l \in Leaves(plt) \ { prediction[j].node : j \in 1..Len(prediction) } :
           \A j \in 1..Len(prediction) : PathProduct(plt, probs, l) <= prediction[j].p

\* C1 witness: top-2 of three leaves at different depths, the emitted values
\* strictly decreasing and positive, a leaf with a smaller positive product
\* left out.
C1_Witness ==
    /\ ppc = "done"
    /\ topK = 2
    /\ Cardinality(Leaves(plt)) = 3
    /\ Len(prediction) = 2
    /\ prediction[1].p > prediction[2].p
    /\ \E l \in Leaves(plt) :
         /\ \A j \in 1..2 : prediction[j].node # l
         /\ PathProduct(plt, probs, l) > 0
         /\ PathProduct(plt, probs, l) < prediction[2].p

(***************************************************************************)
(* Properties of the label tree (checked under SpecTree).                  *)
(***************************************************************************)

\* the node count of section 4.3 of the specification for arity a > 2
StatedNodeCount(k, a) ==
    LET A == CHOOSE x \in { Pow(a, e) : e \in 0..k } : x <= k /\ a * x > k
        B == k - A
        C == CeilDiv(B, a - 1)
        D == (a * A - 1) \div (a - 1)
        E == k - (A - C)
    IN  E + D

\* C7: buildCompleteTree(k, a) with k >= 1, a >= 2 yields a well-formed tree:
\* t = 2k-1 for a = 2 and the stated formula for a > 2 (k leaves plus
\* ceil((k-1)/(a-1)) internal nodes); nodes 0..ti-1 are internal with label -1
\* and 1..a children; nodes ti..t-1 are childless leaves whose labels are a
\* bijection onto 0..k-1 recorded in treeLeaves; node 0 is the only node
\* without a parent and node i > 0 has the single parent floor((i-1)/a).
C7_CompleteTreeWellFormed ==
    call.op = "buildCompleteTree" =>
      LET k  == call.k
          a  == call.arity
          t  == plt.t
          ti == t - k
      IN  /\ plt.k = k
          /\ t = (IF a = 2 THEN 2 * k - 1 ELSE StatedNodeCount(k, a))
          /\ t = k + CeilDiv(k - 1, a - 1)
          /\ Len(plt.tree) = t
          /\ \A i \in 0..(t - 1) : Node(plt, i).index = i
          /\ \A i \in 0..(ti - 1) :
               /\ Node(plt, i).label = -1
               /\ Len(Node(plt, i).children) \in 1..a
          /\ \A i \in ti..(t - 1) :
               /\ Node(plt, i).label \in 0..(k - 1)
               /\ Node(plt, i).children = <<>>
          /\ \A i, j \in ti..(t - 1) : i # j => Node(plt, i).label # Node(plt, j).label
          /\ DOMAIN plt.treeLeaves = 0..(k - 1)
          /\ \A l \in 0..(k - 1) :
               /\ plt.treeLeaves[l] \in ti..(t - 1)
               /\ Node(plt, plt.treeLeaves[l]).label = l
          /\ plt.treeRoot = 0
          /\ \A i \in 0..(t - 1) : (Node(plt, i).parent = Null) <=> (i = 0)
          /\ \A i \in 1..(t - 1) :
               /\ Node(plt, i).parent = (i - 1) \div a
               /\ \A p \in 0..(t - 1) :
                    Cardinality({ j \in 1..Len(Node(plt, p).children) :
                                    Node(plt, p).children[j] = i })
                      = (IF p = (i - 1) \div a THEN 1 ELSE 0)

\* C7 witness: a ternary tree over four shuffled labels (t = 6, the last
\* internal node has fewer children than the arity) has been built.
C7_Witness ==
    /\ call.op = "buildCompleteTree"
    /\ call.k = 4 /\ call.arity = 3 /\ call.randomizeTree
    /\ call.labelsOrder # <<0, 1, 2, 3>>
    /\ Len(plt.tree) = 6
    /\ Len(Node(plt, 1).children) = 2

RootOf(file) ==
    (CHOOSE j \in 1..Len(file.triples) : file.triples[j][1] = -1)

EdgesOf(file) == { tr \in Range(file.triples) : tr[1] # -1 }

\* C9: loadTreeStructure on (k, t), t-1 edge triples and one root triple placed
\* anywhere yields t nodes indexed 0..t-1, the designated child as root and
\* only parentless node, every edge reflected in parent and children, and
\* treeLeaves mapping each of the k labels to its leaf; the S3 file loads to
\* root 0 with leaves 3,4,5,6 labelled 0,1,2,3.
C9_LoadTreeStructure ==
    call.op = "loadTreeStructure" =>
      LET file == call.file
          root == file.triples[RootOf(file)][2]
      IN  /\ Len(plt.tree) = file.t
          /\ \A i \in NodeIds(plt) : Node(plt, i).index = i
          /\ plt.treeRoot = root
          /\ \A i \in NodeIds(plt) : (Node(plt, i).parent = Null) <=> (i = root)
          /\ \A e \in EdgesOf(file) :
               /\ Node(plt, e[2]).parent = e[1]
               /\ e[2] \in Range(Node(plt, e[1]).children)
               /\ e[3] >= 0 => /\ e[3] \in DOMAIN plt.treeLeaves
                               /\ plt.treeLeaves[e[3]] = e[2]
          /\ DOMAIN plt.treeLeaves = 0..(file.k - 1)
          /\ file = S3File =>
               /\ plt.treeRoot = 0
               /\ plt.treeLeaves = [l \in 0..3 |-> l + 3]
               /\ \A l \in 0..3 : Node(plt, l + 3).label = l

SameTree(A, B) ==
    /\ A.k = B.k
    /\ A.t = B.t
    /\ Len(A.tree) = Len(B.tree)
    /\ \A i \in NodeIds(A) :
         /\ Node(A, i).index = Node(B, i).index
         /\ Node(A, i).label = Node(B, i).label
         /\ Node(A, i).parent = Node(B, i).parent
         /\ Range(Node(A, i).children) = Range(Node(B, i).children)
    /\ A.treeRoot = B.treeRoot
    /\ A.treeLeaves = B.treeLeaves

\* C10: for every tree built by buildCompleteTree or loadTreeStructure, loading
\* the output of save into a fresh PLTree yields the same k, t, (index, label)
\* of every node, root, parents, sets of children and treeLeaves.
C10_SaveLoadRoundTrip ==
    loaded # EmptyTree => SameTree(plt, loaded)

(***************************************************************************)
(* PLTree::train: assignment of the rows to the node buckets, then one     *)
(* Base per node, in a ThreadPool when args.threads > 1.                   *)
(***************************************************************************)
PathToRootWithoutLeaf(T, n) ==
    LET Up[m \in NodeIds(T)] ==
          IF Node(T, m).parent # Null THEN {Node(T, m).parent} \cup Up[Node(T, m).parent]
          ELSE {}
    IN  Up[n]

\* the leaf of a label and its ancestors: n, n->parent, ... up to the root
PathToRoot(T, n) ==
    LET Up[m \in NodeIds(T)] ==
          IF Node(T, m).parent # Null THEN {Node(T, m).parent} \cup Up[Node(T, m).parent]
          ELSE {}
    IN  {n} \cup Up[n]

\* nPositive of a row with labels rLabels
PositiveNodes(T, rLabels) ==
    UNION { PathToRoot(T, T.treeLeaves[rLabels[i]]) : i \in 1..Len(rLabels) }

\* nNegative: the queue loop started from the root
RECURSIVE NegativeNodes(_, _, _, _)
NegativeNodes(T, nQ, P, N) ==
    IF nQ = <<>> THEN N
    ELSE LET children == Node(T, Head(nQ)).children
         IN  NegativeNodes(T,
                           Tail(nQ) \o SelectSeq(children, LAMBDA child : child \in P),
                           P,
                           N \cup { child \in Range(children) : child \notin P })

\* nPositive and nNegative of one row
AssignRow(T, rLabels) ==
    IF Len(rLabels) > 0
    THEN LET P == PositiveNodes(T, rLabels)
         IN  [P |-> P, N |-> NegativeNodes(T, <<T.treeRoot>>, P, {})]
    ELSE [P |-> {}, N |-> {T.treeRoot}]

\* bins[n->index].push_back(v) for every n of S whose bucket exists
PushBack(T, bins, S, v) ==
    [i \in DOMAIN bins |->
       IF \E n \in S : Node(T, n).index = i THEN Append(bins[i], v) ELSE bins[i]]

\* features.data()[r]: the feature vector of row r
RowFeatures(r) == IF r % 2 = 0 THEN {1} ELSE {1, 2}

\* the exceptions of Base::train: thrown by trainOnline, which is reached
\* when the labels are of two classes
TrainThrows(labels, a) ==
    /\ Cardinality(Range(labels)) > 1
    /\ a.optimizerType # "liblinear"
    /\ \/ a.lossType \notin {"logistic", "squaredHinge", "pwLogistic"}
       \/ a.optimizerType \notin {"sgd", "adagrad"}

\* what a read outside the bucket arrays may find
GarbageBuckets ==
    { [labels |-> <<>>, features |-> <<>>], [labels |-> <<1>>, features |-> <<0>>] }

\* the node file written by base.save after base.train on a bucket
NodeFile(bucket, a) ==
    [labels |-> bucket.labels, features |-> bucket.features,
     base |-> Train(NewBase, bucket.labels,
                    [j \in 1..Len(bucket.features) |-> RowFeatures(bucket.features[j])],
                    FeatureCols, a)]

(***************************************************************************)
(* Inputs of train.                                                        *)
(***************************************************************************)
MaxRows == 3                \* the data has 1..MaxRows rows
ThreadValues == {1, 2}      \* args.threads
ColsValues == {2, 3}        \* labels.cols() when the tree is built complete

SmallFile == [k |-> 2, t |-> 3, triples |-> << <<-1, 1, -1>>, <<1, 0, 0>>, <<1, 2, 1>> >>]

TrainTrees ==
    { [tree |-> S3File, cols |-> S3File.k], [tree |-> SmallFile, cols |-> SmallFile.k] }
    \cup { [tree |-> <<>>, cols |-> c] : c \in ColsValues }

TrainArgsSet ==
    { [threads |-> th, tree |-> tt.tree, cols |-> tt.cols,
       treeType |-> "completeInOrder", arity |-> 2,
       optimizerType |-> "sgd", solverType |-> "L2R_LR_DUAL", lossType |-> ls,
       epochs |-> 1, tmax |-> -1, weightsThreshold |-> th2] :
        th \in ThreadValues, tt \in TrainTrees, ls \in {"logistic", "unknown"},
        th2 \in ThresholdValues }

\* the label sequences a row may hold when there are cols labels
RowChoices(cols) ==
    {<<>>, <<0>>, <<IF cols >= 3 THEN cols - 3 ELSE 0, cols - 1>>}

InitTrain ==
    /\ args \in TrainArgsSet
    /\ dataLabels \in { q \in SeqsUpTo(RowChoices(args.cols), MaxRows) : q # <<>> }
    /\ binLabels = EmptyMap
    /\ binFeatures = EmptyMap
    /\ tpc = "start"
    /\ tloop = 0
    /\ nPositive = {}
    /\ nNegative = {}
    /\ memCorrupt = FALSE
    /\ poolQueue = <<>>
    /\ poolRunning = {}
    /\ results = <<>>
    /\ disk = NoDisk
    /\ plt = EmptyTree
    /\ call = NoCall
    /\ out = <<>>
    /\ loaded = EmptyTree
    /\ PredictIdle
    /\ base = NewBase
    /\ bcall = NoCall
    /\ ncalls = 0
    /\ dangling = {}
    /\ UpdateIdle

\* lines 50-67: the tree structure, then one bucket per row
TrainBegin ==
    /\ tpc = "start"
    /\ \E defLabel \in DefaultLabels :
         IF args.tree # <<>>
         THEN /\ plt' = LoadTreeStructure(args.tree, defLabel)
              /\ call' = [op |-> "loadTreeStructure", file |-> args.tree]
         ELSE /\ plt' = BuildCompleteTree(args.cols, args.arity, FALSE, <<>>, defLabel)
              /\ call' = [op |-> "buildCompleteTree", k |-> args.cols, arity |-> args.arity,
                          randomizeTree |-> FALSE, labelsOrder |-> <<>>]
    /\ binLabels' = [i \in 0..(Len(dataLabels) - 1) |-> <<>>]
    /\ binFeatures' = [i \in 0..(Len(dataLabels) - 1) |-> <<>>]
    /\ tpc' = "assign"
    /\ tloop' = 0
    /\ UNCHANGED <<dataLabels, nPositive, nNegative, memCorrupt, poolQueue, poolRunning,
                   results, disk, out, loaded, args>>
    /\ UNCHANGED <<predVars, baseVars>>

\* lines 72-117: one iteration of the row loop
TrainAssignRow ==
    /\ tpc = "assign"
    /\ tloop < Len(dataLabels)
    /\ LET a   == AssignRow(plt, dataLabels[tloop + 1])
           oob == \E n \in a.P \cup a.N : Node(plt, n).index \notin DOMAIN binLabels
           bl  == PushBack(plt, PushBack(plt, binLabels, a.P, 1), a.N, 0)
           bf  == PushBack(plt, PushBack(plt, binFeatures, a.P, tloop), a.N, tloop)
           nxt == IF tloop + 1 < Len(dataLabels) THEN "assign"
                  ELSE IF args.threads > 1 THEN "dispatch" ELSE "single"
       IN  /\ nPositive' = a.P
           /\ nNegative' = a.N
           /\ \/ /\ binLabels' = bl
                 /\ binFeatures' = bf
                 /\ memCorrupt' = (memCorrupt \/ oob)
                 /\ tloop' = IF nxt = "assign" THEN tloop + 1 ELSE 0
                 /\ tpc' = nxt
              \/ /\ oob
                 /\ memCorrupt' = TRUE
                 /\ tpc' = "crashed"
                 /\ UNCHANGED <<binLabels, binFeatures, tloop>>
    /\ UNCHANGED <<dataLabels, poolQueue, poolRunning, results, disk, args>>
    /\ UNCHANGED <<treeVars, predVars, baseVars>>

\* lines 126-128: one iteration of the enqueue loop
TrainEnqueue ==
    /\ tpc = "dispatch"
    /\ tloop < Len(plt.tree)
    /\ results' = Append(results, "pending")
    /\ poolQueue' = Append(poolQueue, tloop)
    /\ IF tloop + 1 < Len(plt.tree)
       THEN tloop' = tloop + 1 /\ tpc' = "dispatch"
       ELSE tloop' = 0 /\ tpc' = "wait"
    /\ UNCHANGED <<dataLabels, binLabels, binFeatures, nPositive, nNegative, memCorrupt,
                   poolRunning, disk, args>>
    /\ UNCHANGED <<treeVars, predVars, baseVars>>

PoolLive == tpc \in {"dispatch", "wait", "unwinding"}

\* a pool worker takes the oldest task of the queue
WorkerTake ==
    /\ PoolLive
    /\ poolQueue # <<>>
    /\ Cardinality(poolRunning) < args.threads
    /\ poolRunning' = poolRunning \cup {Head(poolQueue)}
    /\ poolQueue' = Tail(poolQueue)
    /\ UNCHANGED <<dataLabels, binLabels, binFeatures, tpc, tloop, nPositive, nNegative,
                   memCorrupt, results, disk, args>>
    /\ UNCHANGED <<treeVars, predVars, baseVars>>

\* the bucket a task or the single-threaded loop reads for node index idx
BucketRead(idx) ==
    IF idx \in DOMAIN binLabels
    THEN {[labels |-> binLabels[idx], features |-> binFeatures[idx]]}
    ELSE GarbageBuckets

\* lines 20-29: nodeTrainThread, run to its end by a pool worker
WorkerFinish ==
    /\ PoolLive
    /\ \E j \in poolRunning :
         LET idx == Node(plt, j).index
         IN  \/ \E bucket \in BucketRead(idx) :
                  /\ poolRunning' = poolRunning \ {j}
                  /\ memCorrupt' = (memCorrupt \/ idx \notin DOMAIN binLabels)
                  /\ IF TrainThrows(bucket.labels, args)
                     THEN /\ results' = [results EXCEPT ![j + 1] = "exception"]
                          /\ UNCHANGED disk
                     ELSE /\ results' = [results EXCEPT ![j + 1] = "ok"]
                          /\ disk' = [disk EXCEPT !.nodes = MapPut(@, idx, NodeFile(bucket, args))]
                  /\ UNCHANGED tpc
             \/ /\ idx \notin DOMAIN binLabels
                /\ memCorrupt' = TRUE
                /\ tpc' = "crashed"
                /\ UNCHANGED <<poolRunning, results, disk>>
    /\ UNCHANGED <<dataLabels, binLabels, binFeatures, tloop, nPositive, nNegative,
                   poolQueue, args>>
    /\ UNCHANGED <<treeVars, predVars, baseVars>>

\* lines 131-134: results[i].get().  An exception of the task is rethrown
\* here; main() has no handler, so whether the stack is unwound (and the
\* pool destructor runs) before std::terminate is up to the implementation.
TrainGet ==
    /\ tpc = "wait"
    /\ results[tloop + 1] # "pending"
    /\ IF results[tloop + 1] = "ok"
       THEN IF tloop + 1 < Len(results)
            THEN tloop' = tloop + 1 /\ tpc' = "wait"
            ELSE tloop' = 0 /\ tpc' = "save"
       ELSE /\ tpc' \in {"terminated", "unwinding"}
            /\ UNCHANGED tloop
    /\ UNCHANGED <<dataLabels, binLabels, binFeatures, nPositive, nNegative, memCorrupt,
                   poolQueue, poolRunning, results, disk, args>>
    /\ UNCHANGED <<treeVars, predVars, baseVars>>

\* ThreadPool::~ThreadPool during unwinding: joins the workers once the
\* queue is empty; then the exception leaves train
TrainUnwind ==
    /\ tpc = "unwinding"
    /\ poolQueue = <<>>
    /\ poolRunning = {}
    /\ tpc' = "failed"
    /\ UNCHANGED <<dataLabels, binLabels, binFeatures, tloop, nPositive, nNegative,
                   memCorrupt, poolQueue, poolRunning, results, disk, args>>
    /\ UNCHANGED <<treeVars, predVars, baseVars>>

\* lines 136-141: one iteration of the single-threaded loop
TrainSingle ==
    /\ tpc = "single"
    /\ tloop < Len(plt.tree)
    /\ LET idx == Node(plt, tloop).index
       IN  \/ \E bucket \in BucketRead(idx) :
                /\ memCorrupt' = (memCorrupt \/ idx \notin DOMAIN binLabels)
                /\ IF TrainThrows(bucket.labels, args)
                   THEN /\ tpc' = "failed"
                        /\ UNCHANGED <<disk, tloop>>
                   ELSE /\ disk' = [disk EXCEPT !.nodes = MapPut(@, tloop, NodeFile(bucket, args))]
                        /\ IF tloop + 1 < Len(plt.tree)
                           THEN tloop' = tloop + 1 /\ tpc' = "single"
                           ELSE tloop' = 0 /\ tpc' = "save"
           \/ /\ idx \notin DOMAIN binLabels
              /\ memCorrupt' = TRUE
              /\ tpc' = "crashed"
              /\ UNCHANGED <<disk, tloop>>
    /\ UNCHANGED <<dataLabels, binLabels, binFeatures, nPositive, nNegative,
                   poolQueue, poolRunning, results, args>>
    /\ UNCHANGED <<treeVars, predVars, baseVars>>

\* lines 150-151: tree.bin and args.bin
TrainSave ==
    /\ tpc = "save"
    /\ disk' = [disk EXCEPT !.tree = Save(plt), !.args = TRUE]
    /\ plt' = [plt EXCEPT !.t = Len(plt.tree)]
    /\ tpc' = "done"
    /\ UNCHANGED <<dataLabels, binLabels, binFeatures, tloop, nPositive, nNegative,
                   memCorrupt, poolQueue, poolRunning, results, args>>
    /\ UNCHANGED <<call, out, loaded>>
    /\ UNCHANGED <<predVars, baseVars>>

NextTrain ==
    \/ TrainBegin
    \/ TrainAssignRow
    \/ TrainEnqueue
    \/ WorkerTake
    \/ WorkerFinish
    \/ TrainGet
    \/ TrainUnwind
    \/ TrainSingle
    \/ TrainSave

SpecTrain == InitTrain /\ [][NextTrain]_vars

(***************************************************************************)
(* Properties of train.                                                    *)
(***************************************************************************)
\* the nodes of the subtree below n, n included
SubtreeOf(T, n) ==
    LET Down[m \in NodeIds(T)] ==
          {m} \cup UNION { Down[Node(T, m).children[j]] : j \in 1..Len(Node(T, m).children) }
    IN  Down[n]

\* the leaves of the labels of Y and all their ancestors
LeavesAndAncestors(T, Y) ==
    { n \in NodeIds(T) : \E i \in 1..Len(Y) : T.treeLeaves[Y[i]] \in SubtreeOf(T, n) }

\* the children of the nodes of P
ChildrenOf(T, P) == UNION { Range(Node(T, n).children) : n \in P }

\* the bucket a row was appended to, or the bucket left as it was
BucketAfter(bin, P, N, n, vP, vN) ==
    IF n \in P THEN Append(bin, vP) ELSE IF n \in N THEN Append(bin, vN) ELSE bin

\* C2: a step of the row loop computes P = {} and N = {root} for a row
\* without labels, and otherwise P = the leaves of the labels with their
\* ancestors and N = the children of P outside P, disjoint from P; the row
\* is appended with 1 to the bucket of every node of P, with 0 to the bucket
\* of every node of N, and to no other bucket.
C2_RowAssignment ==
    [][tpc = "assign" =>
         LET Y == dataLabels[tloop + 1]
             P == nPositive'
             N == nNegative'
         IN  /\ Y = <<>> => (P = {} /\ N = {plt.treeRoot})
             /\ Y # <<>> => /\ P = LeavesAndAncestors(plt, Y)
                            /\ N = ChildrenOf(plt, P) \ P
             /\ P \cap N = {}
             /\ \A n \in P \cup N :
                  LET i == Node(plt, n).index
                  IN  /\ i \in DOMAIN binLabels
                      /\ i \in DOMAIN binLabels'
                      /\ binLabels'[i] = BucketAfter(binLabels[i], P, N, n, 1, 0)
                      /\ binFeatures'[i] = BucketAfter(binFeatures[i], P, N, n, tloop, tloop)
             /\ \A i \in DOMAIN binLabels :
                  (\A n \in P \cup N : Node(plt, n).index # i) =>
                      /\ i \in DOMAIN binLabels'
                      /\ binLabels'[i] = binLabels[i]
                      /\ binFeatures'[i] = binFeatures[i]
      ]_vars

\* C3: when train returns, every node index i of the tree has its file
\* node_<i>, written by a Base trained from bucket i and from nothing else,
\* whatever args.threads is.
C3_OneBasePerNode ==
    tpc = "done" =>
      /\ ~memCorrupt
      /\ \A i \in 0..(Len(plt.tree) - 1) :
           /\ i \in DOMAIN disk.nodes
           /\ i \in DOMAIN binLabels
           /\ disk.nodes[i] = NodeFile([labels |-> binLabels[i],
                                        features |-> binFeatures[i]], args)

\* C4: when a failed task ends train, every submitted task has finished,
\* and tree.bin and args.bin are not written.
C4_FailureAfterDrain ==
    tpc \in {"terminated", "failed"} =>
      /\ poolQueue = <<>>
      /\ poolRunning = {}
      /\ \A j \in 1..Len(results) : results[j] # "pending"
      /\ disk.tree = <<>>
      /\ disk.args = FALSE

\* the row loop is about to assign a row with labels {1, 3} on the tree of S3
S3Row13 ==
    /\ tpc = "assign"
    /\ call = [op |-> "loadTreeStructure", file |-> S3File]
    /\ dataLabels[tloop + 1] = <<1, 3>>

\* C8 as stated: on the tree of S3 a row with labels {1, 3} gets the
\* positive nodes {0, 1, 2, 4, 6} and no negative node.
C8_S3NoNegatives ==
    [][S3Row13 => (nPositive' = {0, 1, 2, 4, 6} /\ nNegative' = {})]_vars

\* C8, amended: on the tree of S3 a row with labels {1, 3} gets the
\* positive nodes {0, 1, 2, 4, 6} and the negative nodes {3, 5}.
C8_S3Assignment ==
    [][S3Row13 => (nPositive' = {0, 1, 2, 4, 6} /\ nNegative' = {3, 5})]_vars

\* a data set of the single row {1, 3} has been assigned on the tree of S3
C8_Witness ==
    /\ call = [op |-> "loadTreeStructure", file |-> S3File]
    /\ dataLabels = << <<1, 3>> >>
    /\ tpc \notin {"start", "assign"}
    /\ nPositive = {0, 1, 2, 4, 6}
    /\ nNegative = {3, 5}

\* C13: predict stops once k predictions have been emitted: for every k >= 0
\* and L leaves it appends exactly min(k, L) predictions, never more than k.
C13_PredictStopsAtK ==
    ppc = "done" =>
      /\ Len(prediction) = (IF topK <= Cardinality(Leaves(plt)) THEN topK
                            ELSE Cardinality(Leaves(plt)))
      /\ Len(prediction) <= topK

\* C17: during train every access binLabels[n->index], binFeatures[n->index]
\* is within the arrays, which hold one bucket per tree node, and the two
\* buckets of a node have the same length.
C17_BucketsInBounds ==
    /\ ~memCorrupt
    /\ tpc \notin {"idle", "start"} =>
         /\ \A n \in NodeIds(plt) : Node(plt, n).index \in DOMAIN binLabels
         /\ DOMAIN binLabels = DOMAIN binFeatures
         /\ \A i \in DOMAIN binLabels : Len(binLabels[i]) = Len(binFeatures[i])

(***************************************************************************)
(* Properties of the calls on one Base (checked under SpecBase).           *)
(***************************************************************************)
\* C11: to(type) on a Base whose W already has the representation returns
\* normally and changes nothing; otherwise the Base's own W (and G when
\* present) is afterwards a valid vector of that representation with the
\* same index-to-weight mapping.
C11_ToConverts ==
    (bcall.op = "to" /\ bcall.before.W # NullVec) =>
      IF bcall.before.W.rep = bcall.type
      THEN /\ bcall.outcome = "returned"
           /\ base = bcall.before
           /\ dangling = bcall.danglingBefore
      ELSE /\ bcall.outcome = "returned"
           /\ "W" \notin dangling
           /\ base.W.rep = bcall.type
           /\ base.W.w = bcall.before.W.w
           /\ bcall.before.G # NullVec =>
                /\ "G" \notin dangling
                /\ base.G.rep = bcall.type
                /\ base.G.w = bcall.before.G.w

\* the labels of a training set that takes Base::train to trainOnline
OnlinePath(labels, a) ==
    Cardinality(Range(labels)) > 1 /\ a.optimizerType # "liblinear"

\* epochs x examples
AllSteps(labels, a) == a.epochs * Len(labels)

\* C14: a step is skipped exactly when tmax >= 0 and t > tmax: trainOnline
\* performs all epochs x examples steps for a negative tmax and
\* min(epochs x examples, tmax + 1) steps for tmax >= 0, unsafeUpdate skips
\* under the same condition only, and t never exceeds tmax + 1.
C14_TmaxBoundsSteps ==
    /\ (bcall.op = "train" /\ OnlinePath(bcall.labels, args)) =>
         base.t = (IF args.tmax < 0 \/ AllSteps(bcall.labels, args) <= args.tmax + 1
                   THEN AllSteps(bcall.labels, args)
                   ELSE args.tmax + 1)
    /\ bcall.op = "unsafeUpdate" =>
         ((bcall.outcome = "skipped") <=> (args.tmax >= 0 /\ bcall.before.t > args.tmax))
    /\ (args # NoArgs /\ args.tmax >= 0) => base.t <= args.tmax + 1

\* the number of online steps a train call performs
StepsOfTrain(labels, a) ==
    IF OnlinePath(labels, a)
    THEN TrainOnline(NewBase, labels, [r \in 1..Len(labels) |-> {1}], FeatureCols, a).t
    ELSE 0

\* C15: every train call resets t: after it t is the number of online steps
\* it performed (0 for an empty, single-class or batch-solver training);
\* between train calls t never decreases; firstClassCount never exceeds t.
C15_TrainResetsT ==
    [][/\ bcall'.op = "train" => base'.t = StepsOfTrain(bcall'.labels, args)
       /\ bcall'.op # "train" => base'.t >= base.t
       /\ base'.firstClassCount <= base'.t]_vars

\* C16: setFirstClass(c) completes without error in every state of the Base;
\* with c # firstClass it negates every weight of W (and of G when present)
\* and sets firstClass = c, with c = firstClass it changes nothing; when
\* classCount = 2 predictValue is the same before and after.
C16_SetFirstClass ==
    /\ ~(bcall.op = "crashed" /\ bcall.in = "setFirstClass")
    /\ bcall.op = "setFirstClass" =>
         /\ bcall.first = bcall.before.firstClass => base = bcall.before
         /\ bcall.first # bcall.before.firstClass =>
              /\ base.firstClass = bcall.first
              /\ bcall.before.W # NullVec =>
                   /\ base.W # NullVec
                   /\ \A i \in DOMAIN base.W.w : base.W.w[i] = -bcall.before.W.w[i]
              /\ bcall.before.G # NullVec =>
                   /\ base.G # NullVec
                   /\ \A i \in DOMAIN base.G.w : base.G.w[i] = -bcall.before.G.w[i]
         /\ bcall.before.classCount = 2 =>
              \A f \in FeatureVecs : PredictValue(base, f) = PredictValue(bcall.before, f)

(***************************************************************************)
(* Base::update called by several threads on one Base made by Base(args).  *)
(* The body of unsafeUpdate is a sequence of reads and writes of the       *)
(* members of the Base.                                                    *)
(***************************************************************************)
MaxUpdThreads == 2   \* threads that call update on the Base
MaxUpdates == 1      \* update calls of one thread

UpdThreads == 1..MaxUpdThreads

MutexNeverHeld(m) == TRUE

\* std::lock_guard<std::mutex> lock(updateMtx) can take the mutex
MutexFree(m) == m = Null

UpdateArgsSet ==
    { a \in ArgsSet : a.optimizerType # "liblinear" /\ a.epochs = 1
                      /\ a.lossType = "logistic" /\ a.tmax \in {-1, 0} }

NoLocal == [label |-> 0, f |-> {}, tRead |-> 0]

InitUpdate ==
    /\ args \in UpdateArgsSet
    /\ base = NewBaseArgs(args)
    /\ bcall = NoCall
    /\ ncalls = 0
    /\ dangling = {}
    /\ updateMtx = Null
    /\ upc = [th \in UpdThreads |-> "idle"]
    /\ ulocal = [th \in UpdThreads |-> NoLocal @@ [done |-> 0, fcDone |-> 0]]
    /\ plt = EmptyTree
    /\ call = NoCall
    /\ out = <<>>
    /\ loaded = EmptyTree
    /\ PredictIdle
    /\ TrainIdle

\* a thread calls base.update(label, features, args)
UpdCall ==
    \E th \in UpdThreads :
      /\ upc[th] = "idle"
      /\ ulocal[th].done < MaxUpdates
      /\ \E label \in {0, 1}, f \in FeatureVecs :
           ulocal' = [ulocal EXCEPT ![th].label = label, ![th].f = f]
      /\ upc' = [upc EXCEPT ![th] = "lock"]
      /\ UNCHANGED <<base, bcall, ncalls, dangling, updateMtx>>
      /\ UNCHANGED <<args, treeVars, predVars, trainVars>>

\* line 56: the lock_guard is constructed
UpdLock ==
    \E th \in UpdThreads :
      /\ upc[th] = "lock"
      /\ MutexFree(updateMtx)
      /\ updateMtx' = th
      /\ upc' = [upc EXCEPT ![th] = "check"]
      /\ UNCHANGED <<base, bcall, ncalls, dangling, ulocal>>
      /\ UNCHANGED <<args, treeVars, predVars, trainVars>>

\* line 62, and the read of t for ++t
UpdCheck ==
    \E th \in UpdThreads :
      /\ upc[th] = "check"
      /\ IF SkipStep(base.t, args)
         THEN /\ upc' = [upc EXCEPT ![th] = "unlock"]
              /\ UNCHANGED ulocal
         ELSE /\ upc' = [upc EXCEPT ![th] = "incT"]
              /\ ulocal' = [ulocal EXCEPT ![th].tRead = base.t]
      /\ UNCHANGED <<base, bcall, ncalls, dangling, updateMtx>>
      /\ UNCHANGED <<args, treeVars, predVars, trainVars>>

\* line 64: the write of ++t
UpdIncT ==
    \E th \in UpdThreads :
      /\ upc[th] = "incT"
      /\ base' = [base EXCEPT !.t = ulocal[th].tRead + 1]
      /\ upc' = [upc EXCEPT ![th] = "step"]
      /\ UNCHANGED <<bcall, ncalls, dangling, updateMtx, ulocal>>
      /\ UNCHANGED <<args, treeVars, predVars, trainVars>>

\* lines 65-77: firstClassCount, the gradient and the update of W and G
UpdStep ==
    \E th \in UpdThreads :
      /\ upc[th] = "step"
      /\ base' = [UnsafeUpdate(base, ulocal[th].label, ulocal[th].f, args) EXCEPT !.t = base.t]
      /\ upc' = [upc EXCEPT ![th] = "unlock"]
      /\ UNCHANGED <<bcall, ncalls, dangling, updateMtx, ulocal>>
      /\ UNCHANGED <<args, treeVars, predVars, trainVars>>

\* the lock_guard is destroyed and update returns
UpdUnlock ==
    \E th \in UpdThreads :
      /\ upc[th] = "unlock"
      /\ updateMtx' = IF updateMtx = th THEN Null ELSE updateMtx
      /\ ulocal' = [ulocal EXCEPT ![th] =
                      NoLocal @@ [done |-> @.done + 1,
                                  fcDone |-> IF @.label = base.firstClass THEN @.fcDone + 1
                                             ELSE @.fcDone]]
      /\ upc' = [upc EXCEPT ![th] = "idle"]
      /\ UNCHANGED <<base, bcall, ncalls, dangling>>
      /\ UNCHANGED <<args, treeVars, predVars, trainVars>>

NextUpdate == UpdCall \/ UpdLock \/ UpdCheck \/ UpdIncT \/ UpdStep \/ UpdUnlock

SpecUpdate == InitUpdate /\ [][NextUpdate]_vars

\* the sum of field fld of the locals of all threads
SumLocal(fld) ==
    LET S[n \in 0..MaxUpdThreads] == IF n = 0 THEN 0 ELSE S[n - 1] + ulocal[n][fld]
    IN  S[MaxUpdThreads]

\* the threads inside the body of unsafeUpdate
InBody == { th \in UpdThreads : upc[th] \in {"check", "incT", "step"} }

\* C12: the bodies of concurrent update calls never overlap, and with
\* tmax = -1, when no call is in progress, t is the number of completed
\* calls and firstClassCount the number of them whose label was firstClass.
C12_UpdatesNotLost ==
    /\ Cardinality(InBody) <= 1
    /\ (args.tmax = -1 /\ \A th \in UpdThreads : upc[th] = "idle") =>
         /\ base.t = SumLocal("done")
         /\ base.firstClassCount = SumLocal("fcDone")

\* C12 witness: two threads have each completed an update on the same Base,
\* one with the label of firstClass and one with the other label.
C12_Witness ==
    /\ args.tmax = -1
    /\ \A th \in UpdThreads : upc[th] = "idle"
    /\ \E a, b \in UpdThreads : a # b /\ ulocal[a].done = 1 /\ ulocal[b].done = 1
    /\ base.t >= 2
    /\ base.firstClassCount = 1

====
